---- MODULE Spec2Model ----
(***************************************************************************)
(* Model of the in-process LRU + TTL cache of the post service             *)
(* (src/utils/cache.js, class LRUCache) together with the Node.js timer    *)
(* queue its expiration timers live in and a controllable clock.           *)
(***************************************************************************)
EXTENDS Integers, Sequences, FiniteSets, TLC

\* ---- bounds of the model -------------------------------------------------
\* caps on the clock and on the counters stats.sets and stats.hits + misses
MaxTime == 2
MaxSets == 4
MaxGets == 2
\* cap on the hits and on the misses getStats is asked about
MaxCount == 12
\* the tasks the executeParallel calls of one processor are given in all
MaxTasks == 3

\* ---- the inputs the operations are called with ---------------------------
\* the maxSize argument of the constructor
Capacities == {1, 2}
\* the ttl argument of the constructor, the default time to live
DefaultTtls == {2}
Keys == {1, 2, 3}
Values == {1, 2}

\* null, as returned by get on a miss
Null == 0
\* the default value of set's customTtl parameter (null: no ttl given)
NoTtl == -1
\* no call of getStats or of a key generator has returned yet
NoResult == <<>>
\* undefined: an argument that is omitted
Undefined == -2

\* ---- the arguments of getOrSet and what its computeFn does ---------------------
\* the keys getOrSet is called with
SvcKeys == {1}
\* the keys another caller stores null under with set
NullKeys == {1, 2}
\* what computeFn may yield: a payload, null or undefined
Results == {1, Null, Undefined}
\* the calls that can be in flight at one time
CallIds == {1, 2}
\* what computeFn may raise
Errors == {"E1", "E2"}
\* the ttl argument of getOrSet: omitted (null) or a duration
GetOrSetTtls == {NoTtl, 1}

\* ---- the posts createYeetService creates -----------------------------------------
\* the ids the database gives to new posts, and the author of the posts
PostIds == {<<"a">>, <<"a1">>}
AuthorIds == {<<"u">>}
\* the sweep of invalidatePostCaches: listing pages 1..10, timeline pages 1..5
UserPostsPages == 10
TimelinePages == 5
SweepLimits == <<10, 20, 50>>

\* ---- the arguments the key generators are called with ----------------------
\* ids are strings (cuid values, route parameters), here sequences of characters
Ids == {<<"a">>, <<"a", "1">>, <<"a", ":", "1">>, <<"1", ":", "1", "0">>}
\* page and limit are numbers, or omitted
Pages == {Undefined, 1, 11}
Limits == {Undefined, 10, 20}
Generators == {"post", "userPosts", "timeline", "postLikes", "postRetweets",
               "userProfile", "postStats", "trendingPosts"}
\* customTtl: omitted, 0, or a positive duration
TtlArgs == {NoTtl, 0, 1}

VARIABLES maxSize, ttl, cache, timers, stats, pending, now,
          track, recency, returned, keyArgs, processor,
          calls, others, queries, posts

vars == <<maxSize, ttl, cache, timers, stats, pending, now,
          track, recency, returned, keyArgs, processor,
          calls, others, queries, posts>>

\* what the calls of the instance's mutating methods leave alone
rest == <<returned, keyArgs, processor, calls, others, queries, posts>>

\* the state of the services around the post cache
services == <<calls, others, queries, posts>>

\* ---- helpers on the insertion-ordered Map this.cache ---------------------
\* this.cache is a JS Map: a sequence of entries in insertion order
KeysOf(c) == {c[i].key : i \in 1..Len(c)}

KeySeq(c) == [i \in 1..Len(c) |-> c[i].key]

CacheHas(c, key) == key \in KeysOf(c)

CacheGet(c, key) == c[CHOOSE i \in 1..Len(c) : c[i].key = key]

MapDeleteKeepsAll(c, key) == c

MapDelete(c, key) == SelectSeq(c, LAMBDA e : e.key # key)

\* Map.prototype.set: an existing key keeps its position, a new key is appended
MapSet(c, key, entry) ==
    IF CacheHas(c, key)
    THEN [i \in 1..Len(c) |-> IF c[i].key = key THEN entry ELSE c[i]]
    ELSE Append(c, entry)

\* removal of a key from the timers Map
TimersDelete(t, key) == [k \in (DOMAIN t) \ {key} |-> t[k]]

ClearTimeoutNoop(p, handle) == p

\* clearTimeout(handle): the timer leaves the runtime's queue, if still there
ClearTimeout(p, handle) == p \ {handle}

\* setTimeout(() => this.delete(key), delay): the handle of the armed timer
SetTimeout(key, delay) == [key |-> key, due |-> now + delay]

\* ---- the methods of LRUCache, on S = [cache, timers, stats, pending] -----
IsExpired(entry) == now > entry.expiry

MoveToFrontNoop(c, key) == c

MoveToFront(c, key) == Append(MapDelete(c, key), CacheGet(c, key))

DeleteKeyAlwaysCounts(S, key) ==
    [cache |-> MapDelete(S.cache, key),
     stats |-> [S.stats EXCEPT !.deletes = S.stats.deletes + 1],
     pending |-> IF key \in DOMAIN S.timers
                 THEN ClearTimeout(S.pending, S.timers[key]) ELSE S.pending,
     timers |-> TimersDelete(S.timers, key)]

DeleteKey(S, key) ==
    LET S1 == IF CacheHas(S.cache, key)
              THEN [S EXCEPT !.cache = MapDelete(S.cache, key),
                             !.stats.deletes = S.stats.deletes + 1]
              ELSE S
    IN  IF key \in DOMAIN S1.timers
        THEN [S1 EXCEPT !.pending = ClearTimeout(S1.pending, S1.timers[key]),
                        !.timers = TimersDelete(S1.timers, key)]
        ELSE S1

RECURSIVE EvictFrom(_, _)
EvictFrom(S, ks) ==
    IF ks = <<>> THEN S
    ELSE LET key == Head(ks)
         IN  EvictFrom(IF now > CacheGet(S.cache, key).expiry
                       THEN DeleteKey(S, key) ELSE S,
                       Tail(ks))

EvictExpiredNoop(S) == S

EvictExpired(S) == EvictFrom(S, KeySeq(S.cache))

This == [cache |-> cache, timers |-> timers, stats |-> stats, pending |-> pending]


RecordMissAsHit(st) == [st EXCEPT !.hits = st.hits + 1]

RecordMiss(st) == [st EXCEPT !.misses = st.misses + 1]

RecordHitClearsMisses(st) == [st EXCEPT !.hits = st.hits + 1, !.misses = 0]

RecordHit(st) == [st EXCEPT !.hits = st.hits + 1]

\* get(key): the state after the call and the value returned
GetOp(S, key) ==
    LET S1 == EvictExpired(S)
    IN  IF ~CacheHas(S1.cache, key)
        THEN [S |-> [S1 EXCEPT !.stats = RecordMiss(S1.stats)], val |-> Null]
        ELSE IF IsExpired(CacheGet(S1.cache, key))
        THEN LET S2 == DeleteKey(S1, key)
             IN  [S |-> [S2 EXCEPT !.stats = RecordMiss(S2.stats)], val |-> Null]
        ELSE [S |-> [S1 EXCEPT !.stats = RecordHit(S1.stats),
                               !.cache = MoveToFront(S1.cache, key)],
              val |-> CacheGet(S1.cache, key).data]

\* const ttl = customTtl || this.ttl  (null and 0 are both falsy)
EffectiveTtl(customTtl) ==
    IF customTtl = NoTtl \/ customTtl = 0 THEN ttl ELSE customTtl

IsFullOffByOne(c, key) == Len(c) > maxSize /\ ~CacheHas(c, key)

\* the test "cache is full" of set
IsFull(c, key) == Len(c) >= maxSize /\ ~CacheHas(c, key)

SetOpFullFirst(S, key, value, customTtl) ==
    LET t == EffectiveTtl(customTtl)
        expiry == now + t
        S0 == IF key \in DOMAIN S.timers
              THEN [S EXCEPT !.pending = ClearTimeout(S.pending, S.timers[key])]
              ELSE S
        S2 == IF IsFull(S0.cache, key)
              THEN DeleteKey(S0, S0.cache[1].key)
              ELSE S0
        S3 == EvictExpired(S2)
        timer == SetTimeout(key, t)
    IN  [S |-> [cache |-> MapSet(S3.cache, key,
                                 [key |-> key, data |-> value, expiry |-> expiry]),
                pending |-> S3.pending \cup {timer},
                timers |-> [k \in (DOMAIN S3.timers) \cup {key} |->
                               IF k = key THEN timer ELSE S3.timers[k]],
                stats |-> [S3.stats EXCEPT !.sets = S3.stats.sets + 1]],
         val |-> TRUE]

\* set(key, value, customTtl)
SetOp(S, key, value, customTtl) ==
    LET S1 == EvictExpired(S)
        t == EffectiveTtl(customTtl)
        expiry == now + t
        S2 == IF key \in DOMAIN S1.timers
              THEN [S1 EXCEPT !.pending = ClearTimeout(S1.pending, S1.timers[key])]
              ELSE S1
        S3 == IF IsFull(S2.cache, key)
              THEN DeleteKey(S2, S2.cache[1].key)
              ELSE S2
        timer == SetTimeout(key, t)
    IN  [S |-> [cache |-> MapSet(S3.cache, key,
                                 [key |-> key, data |-> value, expiry |-> expiry]),
                pending |-> S3.pending \cup {timer},
                timers |-> [k \in (DOMAIN S3.timers) \cup {key} |->
                               IF k = key THEN timer ELSE S3.timers[k]],
                stats |-> [S3.stats EXCEPT !.sets = S3.stats.sets + 1]],
         val |-> TRUE]

\* delete(key) always returns true
DeleteOp(S, key) == [S |-> DeleteKey(S, key), val |-> TRUE]

HasOp(S, key) ==
    LET S1 == EvictExpired(S)
    IN  [S |-> S1,
         val |-> CacheHas(S1.cache, key) /\ ~IsExpired(CacheGet(S1.cache, key))]

KeysOp(S) ==
    LET S1 == EvictExpired(S)
    IN  [S |-> S1, val |-> KeySeq(S1.cache)]

SizeOp(S) ==
    LET S1 == EvictExpired(S)
    IN  [S |-> S1, val |-> Len(S1.cache)]

ZeroStats == [hits |-> 0, misses |-> 0, sets |-> 0, deletes |-> 0]

\* the timers clear() cancels: the handles held in the timers Map
Cancelled(S) == {S.timers[k] : k \in DOMAIN S.timers}

ClearOpKeepsTimers(S) ==
    [S |-> [cache |-> <<>>, timers |-> <<>>, stats |-> ZeroStats,
            pending |-> S.pending],
     val |-> TRUE]

\* clear(): clearTimeout of every handle in timers, both Maps emptied, the
\* counters back to zero
ClearOp(S) ==
    [S |-> [cache |-> <<>>, timers |-> <<>>, stats |-> ZeroStats,
            pending |-> S.pending \ Cancelled(S)],
     val |-> TRUE]

\* the callback a timer runs, () => this.delete(key): the timer has left the
\* runtime's queue when it runs
TimerFireOp(S, tm) == DeleteOp([S EXCEPT !.pending = S.pending \ {tm}], tm.key)

\* ---- getStats ----------------------------------------------------------------
Digit(d) == <<"0", "1", "2", "3", "4", "5", "6", "7", "8", "9">>[d + 1]

\* String(n) of a non-negative integer: its decimal digits, no leading zero
RECURSIVE Dec(_)
Dec(n) == IF n < 10 THEN <<Digit(n)>> ELSE Append(Dec(n \div 10), Digit(n % 10))

ToFixed2Truncates(num, den) ==
    LET n == (100 * num) \div den
    IN  Dec(n \div 100) \o <<".", Digit((n \div 10) % 10), Digit(n % 10)>>

\* (num / den).toFixed(2): the integer n nearest to 100 * num / den (the larger
\* one of two equally near), written with two decimals. The quotient is a
\* double in the code; for den below 160 its error never changes n, since
\* 10000 * h / den is then at least 1 / (2 * den) away from a half-integer or
\* is a dyadic fraction, which the double holds exactly.
ToFixed2(num, den) ==
    LET n == (200 * num + den) \div (2 * den)
    IN  Dec(n \div 100) \o <<".", Digit((n \div 10) % 10), Digit(n % 10)>>

\* hitRate: total > 0 ? (hits / total * 100).toFixed(2) + '%' : '0%'
HitRate(hits, misses) ==
    LET total == hits + misses
    IN  IF total > 0 THEN ToFixed2(hits * 100, total) \o <<"%">> ELSE <<"0", "%">>

\* getStats(): the counters, the hit rate, size() and maxSize
GetStatsOp(S) ==
    LET R == SizeOp(S)
    IN  [S |-> R.S,
         val |-> [hits |-> S.stats.hits, misses |-> S.stats.misses,
                  sets |-> S.stats.sets, deletes |-> S.stats.deletes,
                  hitRate |-> HitRate(S.stats.hits, S.stats.misses),
                  size |-> R.val, maxSize |-> maxSize]]

\* ---- generateCacheKey -----------------------------------------------------------
\* a default parameter value: x = d
Default(x, d) == IF x = Undefined THEN d ELSE x

PagedNoSeparator(prefix, id, page, limit) ==
    prefix \o id \o Dec(Default(page, 1)) \o <<":">> \o Dec(Default(limit, 10))

\* `prefix${userId}:${page}:${limit}` with page = 1 and limit = 10 by default
Paged(prefix, id, page, limit) ==
    prefix \o id \o <<":">> \o Dec(Default(page, 1))
           \o <<":">> \o Dec(Default(limit, 10))

post(id) == <<"p", "o", "s", "t", ":">> \o id

userPosts(userId, page, limit) ==
    Paged(<<"u", "s", "e", "r", "_", "p", "o", "s", "t", "s", ":">>, userId, page, limit)

timeline(userId, page, limit) ==
    Paged(<<"t", "i", "m", "e", "l", "i", "n", "e", ":">>, userId, page, limit)

postLikes(postId) == <<"p", "o", "s", "t", "_", "l", "i", "k", "e", "s", ":">> \o postId

postRetweets(postId) ==
    <<"p", "o", "s", "t", "_", "r", "e", "t", "w", "e", "e", "t", "s", ":">> \o postId

userProfile(userId) ==
    <<"u", "s", "e", "r", "_", "p", "r", "o", "f", "i", "l", "e", ":">> \o userId

postStats(postId) == <<"p", "o", "s", "t", "_", "s", "t", "a", "t", "s", ":">> \o postId

trendingPosts(page, limit) ==
    <<"t", "r", "e", "n", "d", "i", "n", "g", ":">> \o Dec(Default(page, 1))
        \o <<":">> \o Dec(Default(limit, 10))

\* the call generateCacheKey[c.fn](...) with the arguments of c
GenerateCacheKey(c) ==
    CASE c.fn = "post" -> post(c.id)
      [] c.fn = "userPosts" -> userPosts(c.id, c.page, c.limit)
      [] c.fn = "timeline" -> timeline(c.id, c.page, c.limit)
      [] c.fn = "postLikes" -> postLikes(c.id)
      [] c.fn = "postRetweets" -> postRetweets(c.id)
      [] c.fn = "userProfile" -> userProfile(c.id)
      [] c.fn = "postStats" -> postStats(c.id)
      [] c.fn = "trendingPosts" -> trendingPosts(c.page, c.limit)

\* the calls of the generators: the arguments a generator does not take are
\* left out (undefined, the empty id)
KeyCalls ==
    {c \in [fn : Generators, id : Ids \cup {<<>>}, page : Pages, limit : Limits] :
        /\ (c.id = <<>>) = (c.fn = "trendingPosts")
        /\ c.fn \notin {"userPosts", "timeline", "trendingPosts"}
              => c.page = Undefined /\ c.limit = Undefined}

\* ---- history kept for the statements about recency ------------------------
\* recency: the stored keys, ordered by the time of their last successful get or
\* set (oldest first). It is recorded only in the behaviours of SpecLru
\* (track = TRUE); the cache itself never reads it.
Touch(r, c, key) ==
    LET kept == SelectSeq(r, LAMBDA k : k \in KeysOf(c) /\ k # key)
    IN  IF key \in KeysOf(c) THEN Append(kept, key) ELSE kept

Record(r) ==
    /\ track' = track
    /\ recency' = IF track THEN r ELSE recency

\* ---- the modules around the post cache -----------------------------------------
\* an instance nothing was stored in
Empty == [cache |-> <<>>, timers |-> <<>>, stats |-> ZeroStats, pending |-> {}]

\* no service call in flight, userCache, timelineCache and queryCache as
\* constructed, the performance tracker and the posts table empty
Idle ==
    /\ calls = {}
    /\ others = [user |-> Empty, timeline |-> Empty, query |-> Empty]
    /\ queries = {}
    /\ posts = {}

\* the post getYeetByIdService, deleteYeetService, likeYeetService and
\* retweetYeetService are called for, and the error a database call fails with
ServedIds == {<<"a">>}
DbErrors == {"E1"}

\* the two interactions, and the errors the create of likeYeetService or
\* retweetYeetService fails with (P2002: the record exists already)
InteractionTypes == {"like", "retweet"}
InteractionErrors == {"E1", "P2002"}

\* the tasks executeParallel is given: at most MaxTasks of them, each a
\* function or a promise; what a task comes to; new ParallelProcessor(2)
\* and the concurrency argument, omitted or given
TaskKinds == {"function", "promise"}
TaskLists == UNION {[1..n -> TaskKinds] : n \in 0..MaxTasks}
Outcomes ==
    {[ok |-> TRUE, value |-> 1, error |-> ""],
     [ok |-> TRUE, value |-> Null, error |-> ""],
     [ok |-> FALSE, value |-> Null, error |-> "E1"]}
MaxConcurrencies == {2}
ConcurrencyArgs == {Null, 1, 2}

\* the pages and the page sizes getUserTimelineService is called with
TimelinePageArgs == {Undefined, 2}
TimelineLimitArgs == {Undefined, 20}

\* ---- the keys of the post cache ---------------------------------------------------
\* the key strings the keys 1, 2, 3 of the post cache stand for
KeyNames == <<post(<<"a">>), post(<<"a1">>), trendingPosts(Undefined, Undefined)>>

KeyIndex(name) == CHOOSE k \in Keys : KeyNames[k] = name

\* ---- performanceTracker ------------------------------------------------------------
\* `create_yeet_${Date.now()}`
CreateYeetQueryId == <<"create_yeet_">> \o Dec(now)

\* queries.set(queryId, ...): the ids of the queries being tracked. No query
\* lasts the 1000 ms of the slow-query threshold within MaxTime, so slowQueries
\* stays empty.
StartTracking(q, queryId) == q \cup {queryId}

EndTracking(q, queryId) == q \ {queryId}

\* ---- cacheHelpers.invalidatePostCaches -------------------------------------------
\* cache.delete(key) for every key of ks, in order
\* (a delete of a key that has neither an entry nor a timer leaves the
\* instance as it is, and is passed over)
RECURSIVE DeleteFrom(_, _, _)
DeleteFrom(S, ks, i) ==
    IF i > Len(ks) THEN S
    ELSE IF CacheHas(S.cache, ks[i]) \/ ks[i] \in DOMAIN S.timers
    THEN DeleteFrom(DeleteOp(S, ks[i]).S, ks, i + 1)
    ELSE DeleteFrom(S, ks, i + 1)

DeleteAll(S, ks) == DeleteFrom(S, ks, 1)

\* for page = 1..10, for limit of [10, 20, 50]: userPosts(userId, page, limit)
UserPostsSweep(userId) ==
    [i \in 1..(UserPostsPages * Len(SweepLimits)) |->
        userPosts(userId, ((i - 1) \div Len(SweepLimits)) + 1,
                  SweepLimits[((i - 1) % Len(SweepLimits)) + 1])]

\* for page = 1..5: timeline(userId, page)
TimelineSweep(userId) ==
    [page \in 1..TimelinePages |-> timeline(userId, page, Undefined)]

\* the keys of the two sweeps, for each author
SweepKeys ==
    [userId \in AuthorIds |->
        [user |-> UserPostsSweep(userId), timeline |-> TimelineSweep(userId)]]

InvalidateKeepsPost(A, postId, userId) ==
    [A EXCEPT !.others =
        [query |-> DeleteOp(A.others.query, postStats(postId)).S,
         user |-> DeleteAll(A.others.user, SweepKeys[userId].user),
         timeline |-> DeleteAll(A.others.timeline, SweepKeys[userId].timeline)]]

\* A = [post, others, queries]: the post cache, the three other instances and
\* the tracker
InvalidatePostCaches(A, postId, userId) ==
    [A EXCEPT !.post = DeleteOp(A.post, KeyIndex(post(postId))).S,
              !.others =
        [query |-> DeleteOp(A.others.query, postStats(postId)).S,
         user |-> DeleteAll(A.others.user, SweepKeys[userId].user),
         timeline |-> DeleteAll(A.others.timeline, SweepKeys[userId].timeline)]]

\* ---- createYeetService -------------------------------------------------------------
App == [post |-> This, others |-> others, queries |-> queries]

\* after the await, prisma.post.create having returned newYeet: the post is
\* cached, the related keys are invalidated, the tracking ends
CreateYeetDoneOp(A, c, newYeet) ==
    LET A1 == [A EXCEPT !.post = SetOp(A.post, KeyIndex(post(newYeet.id)),
                                       newYeet.data, NoTtl).S]
        A2 == InvalidatePostCaches(A1, newYeet.id, newYeet.authorId)
    IN  [A |-> [A2 EXCEPT !.queries = EndTracking(A2.queries, c.queryId)],
         val |-> newYeet]

\* prisma.post.create having raised error: the tracking ends, the error is
\* thrown again
CreateYeetFailOp(A, c, error) ==
    [A |-> [A EXCEPT !.queries = EndTracking(A.queries, c.queryId)],
     threw |-> error]

CreateYeetCall(id, authorId) ==
    [id |-> id, op |-> "createYeet", key |-> Null, ttl |-> NoTtl,
     queryId |-> CreateYeetQueryId, authorId |-> authorId]

\* ---- cacheHelpers.getOrSet ------------------------------------------------------
\* up to the await: data = cache.get(key); if (data !== null) return data;
\* otherwise fallbackFn is invoked and the call is suspended
GetOrSetStartOp(S, key) ==
    LET R == GetOp(S, key)
    IN  [S |-> R.S, val |-> R.val, computes |-> (R.val = Null)]

ShouldStoreAny(data) == TRUE

\* if (data !== null && data !== undefined)
ShouldStore(data) == data # Null /\ data # Undefined

GetOrSetResolveKeepsFirst(S, c, data) ==
    [S |-> IF ShouldStore(data) /\ ~CacheHas(S.cache, c.key)
           THEN SetOp(S, c.key, data, c.ttl).S ELSE S,
     val |-> data]

\* after the await, fallbackFn having yielded data
GetOrSetResolveOp(S, c, data) ==
    [S |-> IF ShouldStore(data) THEN SetOp(S, c.key, data, c.ttl).S ELSE S,
     val |-> data]

GetOrSetRejectCachesNull(S, c, error) ==
    [S |-> SetOp(S, c.key, Null, c.ttl).S, threw |-> error]

\* after the await, fallbackFn having raised error: nothing catches it
GetOrSetRejectOp(S, c, error) == [S |-> S, threw |-> error]

\* the ids of the calls that are not in flight
FreeCallIds == CallIds \ {c.id : c \in calls}

GetOrSetCall(id, key, t) ==
    [id |-> id, op |-> "getOrSet", key |-> key, ttl |-> t,
     queryId |-> <<>>, authorId |-> <<>>]

\* ---- paginationHelpers.validatePagination ------------------------------------
Max(a, b) == IF a >= b THEN a ELSE b

Min(a, b) == IF a <= b THEN a ELSE b

\* the largest page size validatePagination lets through
MaxLimit == 100

\* parseInt(x) || d, for x undefined or a number
OrDefault(x, d) == IF x = Undefined \/ x = 0 THEN d ELSE x

ValidatePagination(page, limit) ==
    [page |-> Max(1, OrDefault(page, 1)),
     limit |-> Min(MaxLimit, Max(1, OrDefault(limit, 10)))]

\* if (cached): the services cache objects only, so what a get returns is
\* falsy exactly when it is null
Truthy(x) == x # Null /\ x # Undefined

\* ---- getUserTimelineService ------------------------------------------------------
\* the 300000 ms the service passes to timelineCache.set, on the scale of
\* the model's clock
TimelineTtl == 1

\* `get_timeline_${Date.now()}`
GetUserTimelineQueryId == <<"get_timeline_">> \o Dec(now)

\* up to the first await: the key, the cache lookup and, on a miss, the start
\* of the tracking
GetUserTimelineStartOp(A, userId, page, limit) ==
    LET v == ValidatePagination(page, limit)
        cacheKey == timeline(userId, v.page, v.limit)
        R == GetOp(A.others.timeline, cacheKey)
        A1 == [A EXCEPT !.others.timeline = R.S]
    IN  IF Truthy(R.val)
        THEN [A |-> A1, val |-> R.val, key |-> cacheKey, awaits |-> FALSE]
        ELSE [A |-> [A1 EXCEPT !.queries =
                        StartTracking(A1.queries, GetUserTimelineQueryId)],
              val |-> Null, key |-> cacheKey, awaits |-> TRUE]

\* after the awaits, the timeline and the count having been read: the result
\* is cached for 300000 ms, the tracking ends
GetUserTimelineDoneOp(A, c, finalResult) ==
    [A |-> [A EXCEPT !.others.timeline =
                        SetOp(A.others.timeline, c.key, finalResult, TimelineTtl).S,
                     !.queries = EndTracking(A.queries, c.queryId)],
     val |-> finalResult]

\* prisma.post.count having raised error: the catch logs it and throws it again
GetUserTimelineFailOp(A, c, error) == [A |-> A, threw |-> error]

GetUserTimelineCall(id, userId, cacheKey) ==
    [id |-> id, op |-> "getUserTimeline", key |-> cacheKey, ttl |-> TimelineTtl,
     queryId |-> GetUserTimelineQueryId, authorId |-> userId]

\* ---- the posts table and the calls awaiting it -------------------------------
\* the rows of the posts the table can hold: the author and the post itself
Rows == [id \in PostIds |-> [authorId |-> <<"u">>, data |-> 1]]

\* what an awaited database call has come to: not run yet, a row, no row, or an
\* error
Waiting == [state |-> "waiting", authorId |-> <<>>, data |-> Null, error |-> ""]

Row(id) ==
    [state |-> "row", authorId |-> Rows[id].authorId, data |-> Rows[id].data,
     error |-> ""]

NoRow == [state |-> "none", authorId |-> <<>>, data |-> Null, error |-> ""]

Rejected(error) ==
    [state |-> "error", authorId |-> <<>>, data |-> Null, error |-> error]

\* prisma.post.findUnique({ where: { id } }) on the table db
FindUnique(db, id) == IF id \in db THEN Row(id) ELSE NoRow

\* prisma.post.delete({ where: { id } }) on the table db: the record to delete
\* must exist
PrismaDelete(db, id) ==
    IF id \in db THEN [db |-> db \ {id}, res |-> Row(id)]
    ELSE [db |-> db, res |-> Rejected("P2025")]

\* what a service call comes to
Value(v) == [kind |-> "value", val |-> v, error |-> ""]

Threw(error) == [kind |-> "threw", val |-> Null, error |-> error]

Suspended == [kind |-> "suspended", val |-> Null, error |-> ""]

\* ---- getYeetByIdService ----------------------------------------------------------
\* `get_yeet_${Date.now()}`
GetYeetByIdQueryId == <<"get_yeet_">> \o Dec(now)

\* up to the await of prisma.post.findUnique: the cache lookup and, on a miss,
\* the start of the tracking
GetYeetByIdStartOp(A, id) ==
    LET R == GetOp(A.post, KeyIndex(post(id)))
        A1 == [A EXCEPT !.post = R.S]
    IN  IF Truthy(R.val)
        THEN [A |-> A1, out |-> Value(R.val)]
        ELSE [A |-> [A1 EXCEPT !.queries =
                        StartTracking(A1.queries, GetYeetByIdQueryId)],
              out |-> Suspended]

\* after the await, findUnique having come to c.res: no row ends the tracking
\* and throws, a row is cached and returned, an error is logged and thrown
\* again by the catch
GetYeetByIdResumeOp(A, c) ==
    CASE c.res.state = "none" ->
            [A |-> [A EXCEPT !.queries = EndTracking(A.queries, c.queryId)],
             out |-> Threw("Yeet not found")]
      [] c.res.state = "row" ->
            [A |-> [A EXCEPT !.post = SetOp(A.post, KeyIndex(post(c.postId)),
                                            c.res.data, NoTtl).S,
                             !.queries = EndTracking(A.queries, c.queryId)],
             out |-> Value(c.res.data)]
      [] OTHER -> [A |-> A, out |-> Threw(c.res.error)]

GetYeetByIdCall(id, postId) ==
    [id |-> id, op |-> "getYeetById", postId |-> postId,
     queryId |-> GetYeetByIdQueryId, authorId |-> <<>>, pc |-> "findUnique",
     res |-> Waiting]

\* ---- deleteYeetService -----------------------------------------------------------
\* `delete_yeet_${Date.now()}`
DeleteYeetQueryId == <<"delete_yeet_">> \o Dec(now)

DeleteYeetCall(id, postId) ==
    [id |-> id, op |-> "deleteYeet", postId |-> postId,
     queryId |-> DeleteYeetQueryId, authorId |-> <<>>, pc |-> "findUnique",
     res |-> Waiting]

\* after an await, the database call c.pc having come to c.res.
\* After findUnique: no row ends the tracking and throws (the catch ends it
\* again), a row goes on to prisma.post.delete. After delete: the related keys
\* are invalidated with the author read before, the tracking ends. An error
\* of either call ends the tracking and is thrown again.
DeleteYeetResumeOp(A, c) ==
    LET Ended == [A EXCEPT !.queries = EndTracking(A.queries, c.queryId)]
    IN  CASE c.res.state = "error" -> [A |-> Ended, out |-> Threw(c.res.error)]
          [] c.res.state = "none" -> [A |-> Ended, out |-> Threw("Yeet not found")]
          [] c.pc = "findUnique" -> [A |-> A, out |-> Suspended]
          [] OTHER ->
               LET A1 == InvalidatePostCaches(A, c.postId, c.authorId)
               IN  [A |-> [A1 EXCEPT !.queries = EndTracking(A1.queries, c.queryId)],
                    out |-> Value(c.res.data)]

\* ---- likeYeetService / retweetYeetService ----------------------------------------
\* `like_yeet_${Date.now()}`, `retweet_yeet_${Date.now()}`
InteractionQueryId(type) ==
    IF type = "like" THEN <<"like_yeet_">> \o Dec(now)
    ELSE <<"retweet_yeet_">> \o Dec(now)

AlreadyMessage(type) ==
    IF type = "like" THEN "Already liked" ELSE "Already retweeted"

\* { success: true, yeet, userId, liked: true } or the same with retweeted,
\* with the message if there is one
Success(type, yeet, message) ==
    [kind |-> "success", type |-> type, val |-> yeet, message |-> message]

\* prisma.like.create / prisma.retweet.create has stored the record
Created == [state |-> "created", authorId |-> <<>>, data |-> Null, error |-> ""]

\* result is what batchUserInteractions resolved with, inner the tracking id of
\* the getYeetByIdService call awaited, caught whether the catch is running
InteractionCall(id, type, postId) ==
    [id |-> id, op |-> type, postId |-> postId,
     queryId |-> InteractionQueryId(type), authorId |-> <<>>, pc |-> "create",
     res |-> Waiting, result |-> Waiting, inner |-> <<>>, caught |-> FALSE]

\* postCache.delete(name): only the keys of KeyNames are ever stored in the
\* post cache, a delete of another key finds neither an entry nor a timer
PostCacheDelete(S, name) ==
    IF \E k \in Keys : KeyNames[k] = name
    THEN DeleteOp(S, KeyIndex(name)).S
    ELSE S

\* the try, once getYeetByIdService has returned yeet: the two keys of the
\* post are deleted from the post cache, the tracking ends
InteractionFinishOp(A, c, yeet) ==
    LET P1 == PostCacheDelete(A.post, post(c.postId))
        P2 == PostCacheDelete(P1, postStats(c.postId))
    IN  [A |-> [A EXCEPT !.post = P2,
                         !.queries = EndTracking(A.queries, c.queryId)],
         out |-> Success(c.op, yeet, ""), c |-> c]

\* the catch: the tracking ends; on P2002 getYeetByIdService is called again,
\* any other error is thrown again
InteractionCatchOp(A, c, error) ==
    LET A1 == [A EXCEPT !.queries = EndTracking(A.queries, c.queryId)]
        G == GetYeetByIdStartOp(A1, c.postId)
    IN  IF error # "P2002" THEN [A |-> A1, out |-> Threw(error), c |-> c]
        ELSE IF G.out = Suspended
        THEN [A |-> G.A, out |-> Suspended,
              c |-> [c EXCEPT !.pc = "findUnique", !.res = Waiting,
                              !.inner = GetYeetByIdQueryId, !.caught = TRUE]]
        ELSE [A |-> G.A, out |-> Success(c.op, G.out.val, AlreadyMessage(c.op)),
              c |-> c]

\* the awaited getYeetByIdService has come to G.out, a value or an error
InteractionGotOp(c, G) ==
    IF c.caught
    THEN IF G.out.kind = "value"
         THEN [A |-> G.A, out |-> Success(c.op, G.out.val, AlreadyMessage(c.op)),
               c |-> c]
         ELSE [A |-> G.A, out |-> G.out, c |-> c]
    ELSE IF G.out.kind = "value"
         THEN InteractionFinishOp(G.A, c, G.out.val)
         ELSE InteractionCatchOp(G.A, c, G.out.error)

\* the service goes on after an await. After batchUserInteractions, which
\* resolves with the results of executeParallel whatever the create came to:
\* result is not looked at, getYeetByIdService is called. After the
\* findUnique of that getYeetByIdService: it goes on, and the service with it.
InteractionResumeOp(A, c) ==
    IF c.pc = "create"
    THEN LET c1 == [c EXCEPT !.result = c.res]
             G == GetYeetByIdStartOp(A, c.postId)
         IN  IF G.out = Suspended
             THEN [A |-> G.A, out |-> Suspended,
                   c |-> [c1 EXCEPT !.pc = "findUnique", !.res = Waiting,
                                    !.inner = GetYeetByIdQueryId]]
             ELSE InteractionGotOp(c1, G)
    ELSE InteractionGotOp(c, GetYeetByIdResumeOp(A, [c EXCEPT !.queryId = c.inner]))

\* ---- ParallelProcessor ------------------------------------------------------------
\* no ParallelProcessor is constructed
NoProcessor == <<>>

ZeroProcessorStats ==
    [totalProcessed |-> 0, successful |-> 0, failed |-> 0,
     averageExecutionTime |-> 0, totalExecutionTime |-> 0]

\* new ParallelProcessor(maxConcurrency), no executeParallel running. Besides
\* maxConcurrency and stats, the record holds the locals of the running
\* executeParallel: tasks, actualConcurrency, i, the batch being awaited with
\* the time its tasks were started, results and startTime; and what each task
\* came to (outcomes) and stats.totalProcessed at the call (before).
NewProcessor(maxConcurrency) ==
    [maxConcurrency |-> maxConcurrency, stats |-> ZeroProcessorStats,
     pc |-> "idle", tasks |-> <<>>, actualConcurrency |-> 0, i |-> 0,
     batch |-> <<>>, taskStartTime |-> 0, results |-> <<>>, startTime |-> 0,
     outcomes |-> <<>>, before |-> 0]

\* concurrency || this.maxConcurrency
ActualConcurrency(P, concurrency) ==
    IF concurrency = Null THEN P.maxConcurrency ELSE concurrency

SliceToEnd(tasks, from, to) == [k \in 1..(Len(tasks) - from) |-> from + k - 1]

\* tasks.slice(from, to): the indices (from 0) of the tasks of the slice
Slice(tasks, from, to) ==
    [k \in 1..(Min(to, Len(tasks)) - from) |-> from + k - 1]

\* a task of the batch that has not settled yet
Running(index) ==
    [settled |-> FALSE, success |-> FALSE, result |-> Null, error |-> "",
     index |-> index]

\* { success: true, result, index } and { success: false, error, index }
Settled(outcome, index) ==
    [settled |-> TRUE, success |-> outcome.ok, result |-> outcome.value,
     error |-> outcome.error, index |-> index]

\* Math.round(a / b) for a >= 0, b > 0
Round(a, b) == (2 * a + b) \div (2 * b)

\* after the loop: averageExecutionTime is updated and the call returns
FinishParallel(P) ==
    [P EXCEPT !.pc = "done", !.batch = <<>>,
              !.stats.averageExecutionTime =
                  IF P.stats.totalProcessed > 0
                  THEN Round(P.stats.totalExecutionTime, P.stats.totalProcessed)
                  ELSE 0]

\* the head of the loop: for (...; i < tasks.length; ...) the next batch is
\* sliced and batch.map starts each of its tasks
LoopParallel(P) ==
    IF P.i < Len(P.tasks)
    THEN LET batch == Slice(P.tasks, P.i, P.i + P.actualConcurrency)
         IN  [P EXCEPT !.pc = "batch", !.taskStartTime = now,
                       !.batch = [index \in DOMAIN batch |->
                                     Running(P.i + index - 1)]]
    ELSE FinishParallel(P)

\* executeParallel(tasks, concurrency), up to its first await
ExecuteParallelOp(P, tasks, concurrency) ==
    LoopParallel([P EXCEPT !.tasks = tasks,
                           !.actualConcurrency = ActualConcurrency(P, concurrency),
                           !.i = 0, !.results = <<>>, !.startTime = now,
                           !.outcomes = [k \in DOMAIN tasks |-> Running(k - 1)],
                           !.before = P.stats.totalProcessed])

\* the task at position k of the batch settles: try or catch, then finally
TaskSettlesOp(P, k, outcome) ==
    LET index == P.batch[k].index
        st == P.stats
    IN  [P EXCEPT !.batch[k] = Settled(outcome, index),
                  !.outcomes[index + 1] = Settled(outcome, index),
                  !.stats =
                      [st EXCEPT !.successful = IF outcome.ok THEN @ + 1 ELSE @,
                                 !.failed = IF outcome.ok THEN @ ELSE @ + 1,
                                 !.totalExecutionTime = @ + (now - P.taskStartTime),
                                 !.totalProcessed = @ + 1]]

\* Promise.allSettled(batchPromises) resolves: the results of the batch are
\* appended, i += actualConcurrency, and the loop goes on
BatchSettledOp(P) ==
    LoopParallel([P EXCEPT !.results = P.results \o P.batch,
                           !.i = P.i + P.actualConcurrency])

\* what executeParallel returns: { results, stats: { ...this.stats,
\* totalExecutionTime: totalTime, successRate } }
ParallelReturn(P) ==
    [results |-> P.results,
     stats |-> [totalProcessed |-> P.stats.totalProcessed,
                successful |-> P.stats.successful,
                failed |-> P.stats.failed,
                averageExecutionTime |-> P.stats.averageExecutionTime,
                totalExecutionTime |-> now - P.startTime,
                successRate |->
                    IF P.stats.totalProcessed > 0
                    THEN ToFixed2(P.stats.successful * 100, P.stats.totalProcessed)
                         \o <<"%">>
                    ELSE <<"0", "%">>]]

\* the tasks of the batch that are functions and have not settled
RunningFunctions(P) ==
    {k \in DOMAIN P.batch :
        ~P.batch[k].settled /\ P.tasks[P.batch[k].index + 1] = "function"}

\* ---- the state machine ----------------------------------------------------
\* new LRUCache(maxSize, ttl)
Constructed ==
    /\ maxSize \in Capacities
    /\ ttl \in DefaultTtls
    /\ cache = <<>>
    /\ timers = <<>>
    /\ stats = ZeroStats
    /\ pending = {}
    /\ now = 0
    /\ recency = <<>>
    /\ returned = NoResult
    /\ keyArgs = <<>>
    /\ processor = NoProcessor
    /\ Idle

Init == Constructed /\ track = FALSE

InitLru == Constructed /\ track = TRUE

Install(R) ==
    /\ cache' = R.S.cache
    /\ timers' = R.S.timers
    /\ stats' = R.S.stats
    /\ pending' = R.S.pending

Set(key, value, customTtl) ==
    /\ stats.sets < MaxSets
    /\ LET R == SetOp(This, key, value, customTtl)
       IN  /\ Install(R)
           /\ Record(Touch(recency, R.S.cache, key))
    /\ UNCHANGED <<maxSize, ttl, now, rest>>

Get(key) ==
    /\ stats.hits + stats.misses < MaxGets
    /\ LET R == GetOp(This, key)
       IN  /\ Install(R)
           /\ Record(Touch(recency, R.S.cache,
                           IF R.S.stats.hits > stats.hits THEN key ELSE Null))
    /\ UNCHANGED <<maxSize, ttl, now, rest>>

Delete(key) ==
    /\ LET R == DeleteOp(This, key)
       IN  /\ Install(R)
           /\ Record(Touch(recency, R.S.cache, Null))
    /\ UNCHANGED <<maxSize, ttl, now, rest>>

Has(key) ==
    /\ LET R == HasOp(This, key)
       IN  /\ Install(R)
           /\ Record(Touch(recency, R.S.cache, Null))
    /\ UNCHANGED <<maxSize, ttl, now, rest>>

KeysCall ==
    /\ LET R == KeysOp(This)
       IN  /\ Install(R)
           /\ Record(Touch(recency, R.S.cache, Null))
    /\ UNCHANGED <<maxSize, ttl, now, rest>>

SizeCall ==
    /\ LET R == SizeOp(This)
       IN  /\ Install(R)
           /\ Record(Touch(recency, R.S.cache, Null))
    /\ UNCHANGED <<maxSize, ttl, now, rest>>

Clear ==
    /\ LET R == ClearOp(This)
       IN  /\ Install(R)
           /\ Record(<<>>)
    /\ UNCHANGED <<maxSize, ttl, now, rest>>

\* the callback armed by set: () => this.delete(key), run by the runtime once
\* the delay has elapsed (never early, possibly late)
TimerFire(tm) ==
    /\ tm \in pending
    /\ now >= tm.due
    /\ LET R == TimerFireOp(This, tm)
       IN  /\ Install(R)
           /\ Record(Touch(recency, R.S.cache, Null))
    /\ UNCHANGED <<maxSize, ttl, now, rest>>

\* Date.now() advances by one millisecond
Tick ==
    /\ now < MaxTime
    /\ now' = now + 1
    /\ Record(recency)
    /\ UNCHANGED <<maxSize, ttl, cache, timers, stats, pending, rest>>

Next ==
    \/ \E key \in Keys, value \in Values, customTtl \in TtlArgs :
          Set(key, value, customTtl)
    \/ \E key \in Keys : Get(key)
    \/ \E key \in Keys : Has(key)
    \/ KeysCall
    \/ SizeCall
    \/ \E key \in Keys : Delete(key)
    \/ Clear
    \/ \E tm \in pending : TimerFire(tm)
    \/ Tick

Spec == Init /\ [][Next]_vars

\* ---- getStats after h hits and m misses ----------------------------------------
\* the instance after set(1, v) (when there are hits), h times get(1) and
\* m times get(2), all at clock time 0
AfterGets(h, m) ==
    LET S0 == [cache |-> <<>>, timers |-> <<>>, stats |-> ZeroStats, pending |-> {}]
        S1 == IF h > 0 THEN SetOp(S0, 1, 1, NoTtl).S ELSE S0
    IN  [S1 EXCEPT !.stats.hits = h, !.stats.misses = m]

InitStats ==
    /\ maxSize \in Capacities
    /\ ttl \in DefaultTtls
    /\ now = 0
    /\ track = FALSE
    /\ recency = <<>>
    /\ returned = NoResult
    /\ keyArgs = <<>>
    /\ processor = NoProcessor
    /\ Idle
    /\ \E h \in 0..MaxCount, m \in 0..MaxCount :
          /\ cache = AfterGets(h, m).cache
          /\ timers = AfterGets(h, m).timers
          /\ stats = AfterGets(h, m).stats
          /\ pending = AfterGets(h, m).pending

GetStats ==
    /\ returned = NoResult
    /\ LET R == GetStatsOp(This)
       IN  /\ Install(R)
           /\ returned' = R.val
    /\ UNCHANGED <<maxSize, ttl, now, track, recency, keyArgs, processor, services>>

NextStats == GetStats

SpecStats == InitStats /\ [][NextStats]_vars

\* ---- the post cache used through getOrSet and by the services ------------------
GetOrSetStart(key, t) ==
    /\ stats.hits + stats.misses < MaxGets
    /\ FreeCallIds # {}
    /\ LET R == GetOrSetStartOp(This, key)
           id == CHOOSE i \in FreeCallIds : \A j \in FreeCallIds : i <= j
       IN  /\ Install(R)
           /\ IF R.computes
              THEN /\ calls' = calls \cup {GetOrSetCall(id, key, t)}
                   /\ returned' = returned
              ELSE /\ calls' = calls
                   /\ returned' = [kind |-> "value", val |-> R.val]
    /\ UNCHANGED <<maxSize, ttl, now, track, recency, keyArgs, processor,
                   others, queries, posts>>

GetOrSetResolve(c, data) ==
    /\ c \in calls
    /\ c.op = "getOrSet"
    /\ ShouldStore(data) => stats.sets < MaxSets
    /\ LET R == GetOrSetResolveOp(This, c, data)
       IN  /\ Install(R)
           /\ returned' = [kind |-> "value", val |-> R.val]
    /\ calls' = calls \ {c}
    /\ UNCHANGED <<maxSize, ttl, now, track, recency, keyArgs, processor,
                   others, queries, posts>>

GetOrSetReject(c, error) ==
    /\ c \in calls
    /\ c.op = "getOrSet"
    /\ LET R == GetOrSetRejectOp(This, c, error)
       IN  /\ Install(R)
           /\ returned' = [kind |-> "threw", error |-> R.threw]
    /\ calls' = calls \ {c}
    /\ UNCHANGED <<maxSize, ttl, now, track, recency, keyArgs, processor,
                   others, queries, posts>>

\* getOrSet calls on one instance, next to a caller that stores null with set
NextSvc ==
    \/ \E key \in NullKeys : Set(key, Null, NoTtl)
    \/ \E key \in SvcKeys, t \in GetOrSetTtls : GetOrSetStart(key, t)
    \/ \E c \in calls, data \in Results : GetOrSetResolve(c, data)
    \/ \E c \in calls, error \in Errors : GetOrSetReject(c, error)
    \/ \E tm \in pending : TimerFire(tm)
    \/ Tick

SpecSvc == Init /\ [][NextSvc]_vars

\* ---- the post cache under createYeetService ------------------------------------
InstallApp(R) ==
    /\ cache' = R.A.post.cache
    /\ timers' = R.A.post.timers
    /\ stats' = R.A.post.stats
    /\ pending' = R.A.post.pending
    /\ others' = R.A.others
    /\ queries' = R.A.queries

\* createYeetService(yeetData), up to the await of prisma.post.create
CreateYeetStart(authorId) ==
    /\ FreeCallIds # {}
    /\ LET id == CHOOSE i \in FreeCallIds : \A j \in FreeCallIds : i <= j
       IN  calls' = calls \cup {CreateYeetCall(id, authorId)}
    /\ queries' = StartTracking(queries, CreateYeetQueryId)
    /\ UNCHANGED <<maxSize, ttl, cache, timers, stats, pending, now,
                   track, recency, returned, keyArgs, processor, others, posts>>

CreateYeetDone(c, postId, value) ==
    /\ c \in calls
    /\ c.op = "createYeet"
    /\ postId \notin posts
    /\ stats.sets < MaxSets
    /\ LET R == CreateYeetDoneOp(App, c, [id |-> postId, authorId |-> c.authorId,
                                           data |-> value])
       IN  /\ InstallApp(R)
           /\ returned' = [kind |-> "created", id |-> R.val.id]
    /\ posts' = posts \cup {postId}
    /\ calls' = calls \ {c}
    /\ UNCHANGED <<maxSize, ttl, now, track, recency, keyArgs, processor>>

CreateYeetFail(c, error) ==
    /\ c \in calls
    /\ c.op = "createYeet"
    /\ LET R == CreateYeetFailOp(App, c, error)
       IN  /\ InstallApp(R)
           /\ returned' = [kind |-> "threw", error |-> R.threw]
    /\ calls' = calls \ {c}
    /\ UNCHANGED <<maxSize, ttl, now, track, recency, keyArgs, processor, posts>>

\* createYeetService calls on the post cache, next to a caller that stores a
\* listing in it with postCache.set
NextYeet ==
    \/ \E authorId \in AuthorIds : CreateYeetStart(authorId)
    \/ \E c \in calls, postId \in PostIds, value \in Values :
          CreateYeetDone(c, postId, value)
    \/ \E c \in calls, error \in Errors : CreateYeetFail(c, error)
    \/ \E value \in Values :
          Set(KeyIndex(trendingPosts(Undefined, Undefined)), value, 1)
    \/ \E tm \in pending : TimerFire(tm)
    \/ Tick

SpecYeet == Init /\ [][NextYeet]_vars

\* ---- the timeline cache under getUserTimelineService and the invalidation ------
\* getUserTimelineService(userId, page, limit), up to its first await
GetUserTimelineStart(userId, page, limit) ==
    /\ others.timeline.stats.hits + others.timeline.stats.misses < MaxGets
    /\ FreeCallIds # {}
    /\ LET R == GetUserTimelineStartOp(App, userId, page, limit)
           id == CHOOSE i \in FreeCallIds : \A j \in FreeCallIds : i <= j
       IN  /\ InstallApp(R)
           /\ IF R.awaits
              THEN /\ calls' = calls \cup {GetUserTimelineCall(id, userId, R.key)}
                   /\ returned' = returned
              ELSE /\ calls' = calls
                   /\ returned' = [kind |-> "value", val |-> R.val]
    /\ UNCHANGED <<maxSize, ttl, now, track, recency, keyArgs, processor, posts>>

GetUserTimelineDone(c, finalResult) ==
    /\ c \in calls
    /\ c.op = "getUserTimeline"
    /\ others.timeline.stats.sets < MaxSets
    /\ LET R == GetUserTimelineDoneOp(App, c, finalResult)
       IN  /\ InstallApp(R)
           /\ returned' = [kind |-> "value", val |-> R.val]
    /\ calls' = calls \ {c}
    /\ UNCHANGED <<maxSize, ttl, now, track, recency, keyArgs, processor, posts>>

GetUserTimelineFail(c, error) ==
    /\ c \in calls
    /\ c.op = "getUserTimeline"
    /\ LET R == GetUserTimelineFailOp(App, c, error)
       IN  /\ InstallApp(R)
           /\ returned' = [kind |-> "threw", error |-> R.threw]
    /\ calls' = calls \ {c}
    /\ UNCHANGED <<maxSize, ttl, now, track, recency, keyArgs, processor, posts>>

\* cacheHelpers.invalidatePostCaches(postId, userId), as the services call it
\* when a post was created or deleted
Invalidate(postId, userId) ==
    /\ InstallApp([A |-> InvalidatePostCaches(App, postId, userId)])
    /\ returned' = [kind |-> "invalidated", id |-> postId]
    /\ UNCHANGED <<maxSize, ttl, now, track, recency, keyArgs, processor,
                calls, posts>>

\* a timer armed by timelineCache.set runs
TimelineTimerFire(tm) ==
    /\ tm \in others.timeline.pending
    /\ now >= tm.due
    /\ others' = [others EXCEPT !.timeline = TimerFireOp(others.timeline, tm).S]
    /\ UNCHANGED <<maxSize, ttl, cache, timers, stats, pending, now, track,
                   recency, returned, keyArgs, processor, calls, queries, posts>>

NextTimeline ==
    \/ \E userId \in AuthorIds, page \in TimelinePageArgs,
          limit \in TimelineLimitArgs :
          GetUserTimelineStart(userId, page, limit)
    \/ \E c \in calls, finalResult \in Values : GetUserTimelineDone(c, finalResult)
    \/ \E c \in calls, error \in Errors : GetUserTimelineFail(c, error)
    \/ \E postId \in PostIds, userId \in AuthorIds : Invalidate(postId, userId)
    \/ \E tm \in others.timeline.pending : TimelineTimerFire(tm)
    \/ Tick

SpecTimeline == Init /\ [][NextTimeline]_vars

\* ---- the post cache under getYeetByIdService and deleteYeetService ------------
\* the posts table holds the posts, nothing is cached yet
InitPosts ==
    /\ maxSize \in Capacities
    /\ ttl \in DefaultTtls
    /\ cache = <<>>
    /\ timers = <<>>
    /\ stats = ZeroStats
    /\ pending = {}
    /\ now = 0
    /\ track = FALSE
    /\ recency = <<>>
    /\ returned = NoResult
    /\ keyArgs = <<>>
    /\ processor = NoProcessor
    /\ calls = {}
    /\ others = [user |-> Empty, timeline |-> Empty, query |-> Empty]
    /\ queries = {}
    /\ posts = PostIds

\* the call c goes on as d
Goes(c, d) == calls' = (calls \ {c}) \cup {d}

\* getYeetByIdService(id), up to its await
GetYeetByIdStart(postId) ==
    /\ stats.hits + stats.misses < MaxGets
    /\ FreeCallIds # {}
    /\ LET R == GetYeetByIdStartOp(App, postId)
           id == CHOOSE i \in FreeCallIds : \A j \in FreeCallIds : i <= j
       IN  /\ InstallApp(R)
           /\ IF R.out = Suspended
              THEN /\ calls' = calls \cup {GetYeetByIdCall(id, postId)}
                   /\ returned' = returned
              ELSE /\ calls' = calls
                   /\ returned' = R.out
    /\ UNCHANGED <<maxSize, ttl, now, track, recency, keyArgs, processor, posts>>

\* the database runs the findUnique a call awaits
DbFindUnique(c) ==
    /\ c \in calls
    /\ c.pc = "findUnique"
    /\ c.res = Waiting
    /\ Goes(c, [c EXCEPT !.res = FindUnique(posts, c.postId)])
    /\ UNCHANGED <<maxSize, ttl, cache, timers, stats, pending, now, track,
                   recency, returned, keyArgs, processor, others, queries, posts>>

\* the database runs the delete a call awaits
DbDelete(c) ==
    /\ c \in calls
    /\ c.pc = "delete"
    /\ c.res = Waiting
    /\ LET D == PrismaDelete(posts, c.postId)
       IN  /\ posts' = D.db
           /\ Goes(c, [c EXCEPT !.res = D.res])
    /\ UNCHANGED <<maxSize, ttl, cache, timers, stats, pending, now, track,
                   recency, returned, keyArgs, processor, others, queries>>

\* the database call a call awaits fails
DbFail(c, error) ==
    /\ c \in calls
    /\ c.res = Waiting
    /\ Goes(c, [c EXCEPT !.res = Rejected(error)])
    /\ UNCHANGED <<maxSize, ttl, cache, timers, stats, pending, now, track,
                   recency, returned, keyArgs, processor, others, queries, posts>>

\* getYeetByIdService goes on after its await
GetYeetByIdResume(c) ==
    /\ c \in calls
    /\ c.op = "getYeetById"
    /\ c.res # Waiting
    /\ c.res.state = "row" => stats.sets < MaxSets
    /\ LET R == GetYeetByIdResumeOp(App, c)
       IN  /\ InstallApp(R)
           /\ returned' = R.out
    /\ calls' = calls \ {c}
    /\ UNCHANGED <<maxSize, ttl, now, track, recency, keyArgs, processor, posts>>

\* deleteYeetService(id), up to its first await
DeleteYeetStart(postId) ==
    /\ FreeCallIds # {}
    /\ LET id == CHOOSE i \in FreeCallIds : \A j \in FreeCallIds : i <= j
       IN  calls' = calls \cup {DeleteYeetCall(id, postId)}
    /\ queries' = StartTracking(queries, DeleteYeetQueryId)
    /\ UNCHANGED <<maxSize, ttl, cache, timers, stats, pending, now,
                   track, recency, returned, keyArgs, processor, others, posts>>

\* deleteYeetService goes on after an await
DeleteYeetResume(c) ==
    /\ c \in calls
    /\ c.op = "deleteYeet"
    /\ c.res # Waiting
    /\ LET R == DeleteYeetResumeOp(App, c)
       IN  /\ InstallApp(R)
           /\ IF R.out = Suspended
              THEN /\ Goes(c, [c EXCEPT !.pc = "delete", !.res = Waiting,
                                        !.authorId = c.res.authorId])
                   /\ returned' = returned
              ELSE /\ calls' = calls \ {c}
                   /\ returned' = R.out
    /\ UNCHANGED <<maxSize, ttl, now, track, recency, keyArgs, processor, posts>>

NextPosts ==
    \/ \E postId \in ServedIds : GetYeetByIdStart(postId)
    \/ \E postId \in ServedIds : DeleteYeetStart(postId)
    \/ \E c \in calls : DbFindUnique(c)
    \/ \E c \in calls : DbDelete(c)
    \/ \E c \in calls, error \in DbErrors : DbFail(c, error)
    \/ \E c \in calls : GetYeetByIdResume(c)
    \/ \E c \in calls : DeleteYeetResume(c)
    \/ \E tm \in pending : TimerFire(tm)
    \/ Tick

SpecPosts == InitPosts /\ [][NextPosts]_vars

\* ---- the post cache under likeYeetService and retweetYeetService ------------------
\* likeYeetService(yeetId, userId) or retweetYeetService(yeetId, userId), up to
\* the await of batchUserInteractions: the create is on its way
InteractionStart(type, postId) ==
    /\ FreeCallIds # {}
    /\ LET id == CHOOSE i \in FreeCallIds : \A j \in FreeCallIds : i <= j
       IN  calls' = calls \cup {InteractionCall(id, type, postId)}
    /\ queries' = StartTracking(queries, InteractionQueryId(type))
    /\ UNCHANGED <<maxSize, ttl, cache, timers, stats, pending, now,
                   track, recency, returned, keyArgs, processor, others, posts>>

\* the database runs the create a call awaits
DbCreate(c) ==
    /\ c \in calls
    /\ c.pc = "create"
    /\ c.res = Waiting
    /\ Goes(c, [c EXCEPT !.res = Created])
    /\ UNCHANGED <<maxSize, ttl, cache, timers, stats, pending, now, track,
                   recency, returned, keyArgs, processor, others, queries, posts>>

\* the service goes on after an await
InteractionResume(c) ==
    /\ c \in calls
    /\ c.op \in InteractionTypes
    /\ c.res # Waiting
    /\ (c.pc = "create" \/ c.res.error = "P2002") =>
          stats.hits + stats.misses < MaxGets
    /\ c.res.state = "row" => stats.sets < MaxSets
    /\ LET R == InteractionResumeOp(App, c)
       IN  /\ InstallApp(R)
           /\ IF R.out = Suspended
              THEN /\ Goes(c, R.c)
                   /\ returned' = returned
              ELSE /\ calls' = calls \ {c}
                   /\ returned' = R.out
    /\ UNCHANGED <<maxSize, ttl, now, track, recency, keyArgs, processor, posts>>

\* (an entry getYeetByIdService stores for the service is deleted by the service
\* in the same step, so no timer of the post cache is ever left armed)
NextLike ==
    \/ \E type \in InteractionTypes, postId \in ServedIds :
          InteractionStart(type, postId)
    \/ \E c \in calls : DbCreate(c)
    \/ \E c \in calls : DbFindUnique(c)
    \/ \E c \in calls, error \in InteractionErrors :
          c.pc = "create" /\ DbFail(c, error)
    \/ \E c \in calls, error \in DbErrors :
          c.pc = "findUnique" /\ DbFail(c, error)
    \/ \E c \in calls : InteractionResume(c)
    \/ Tick

SpecLike == InitPosts /\ [][NextLike]_vars

\* ---- one ParallelProcessor and its executeParallel calls ------------------------
InitParallel ==
    /\ maxSize = 1
    /\ ttl \in DefaultTtls
    /\ cache = <<>>
    /\ timers = <<>>
    /\ stats = ZeroStats
    /\ pending = {}
    /\ now = 0
    /\ track = FALSE
    /\ recency = <<>>
    /\ returned = NoResult
    /\ keyArgs = <<>>
    /\ processor \in {NewProcessor(m) : m \in MaxConcurrencies}
    /\ Idle

\* executeParallel(tasks, concurrency) is called on the processor, no call
\* of it being in progress
ExecuteParallel(tasks, concurrency) ==
    /\ processor.pc # "batch"
    /\ processor.stats.totalProcessed + Len(tasks) <= MaxTasks
    /\ processor' = ExecuteParallelOp(processor, tasks, concurrency)
    /\ returned' = IF processor'.pc = "done" THEN ParallelReturn(processor')
                   ELSE NoResult
    /\ UNCHANGED <<maxSize, ttl, cache, timers, stats, pending, now, track,
                   recency, keyArgs, services>>

\* a task of the batch resolves or rejects
TaskSettles(k, outcome) ==
    /\ processor.pc = "batch"
    /\ k \in DOMAIN processor.batch
    /\ ~processor.batch[k].settled
    /\ processor' = TaskSettlesOp(processor, k, outcome)
    /\ UNCHANGED <<maxSize, ttl, cache, timers, stats, pending, now, track,
                   recency, returned, keyArgs, services>>

\* all the tasks of the batch have settled: executeParallel goes on
BatchSettled ==
    /\ processor.pc = "batch"
    /\ \A k \in DOMAIN processor.batch : processor.batch[k].settled
    /\ processor' = BatchSettledOp(processor)
    /\ returned' = IF processor'.pc = "done" THEN ParallelReturn(processor')
                   ELSE NoResult
    /\ UNCHANGED <<maxSize, ttl, cache, timers, stats, pending, now, track,
                   recency, keyArgs, services>>

NextParallel ==
    \/ \E tasks \in TaskLists, concurrency \in ConcurrencyArgs :
          ExecuteParallel(tasks, concurrency)
    \/ \E k \in 1..MaxTasks, outcome \in Outcomes : TaskSettles(k, outcome)
    \/ BatchSettled
    \/ Tick

SpecParallel == InitParallel /\ [][NextParallel]_vars

\* ---- two calls of the key generators ------------------------------------------
InitKeys ==
    /\ maxSize = 1
    /\ ttl \in DefaultTtls
    /\ cache = <<>>
    /\ timers = <<>>
    /\ stats = ZeroStats
    /\ pending = {}
    /\ now = 0
    /\ track = FALSE
    /\ recency = <<>>
    /\ returned = NoResult
    /\ keyArgs \in KeyCalls \X KeyCalls
    /\ processor = NoProcessor
    /\ Idle

GenerateKeys ==
    /\ returned = NoResult
    /\ returned' = <<GenerateCacheKey(keyArgs[1]), GenerateCacheKey(keyArgs[2])>>
    /\ UNCHANGED <<maxSize, ttl, cache, timers, stats, pending, now,
                   track, recency, keyArgs, processor, services>>

NextKeys == GenerateKeys

SpecKeys == InitKeys /\ [][NextKeys]_vars

SpecLru == InitLru /\ [][Next]_vars

\* ---- the properties ---------------------------------------------------------
Live(c) == {i \in 1..Len(c) : now <= c[i].expiry}

\* the keys that are stored and whose expiry has not passed
LiveKeys(c) == {c[i].key : i \in Live(c)}

\* C1: capacity invariant. In every reachable state, hence after each set
\* returns, the instance physically stores at most maxSize entries, and so at
\* most maxSize live ones.
C1_Capacity ==
    /\ Len(cache) <= maxSize
    /\ Cardinality(Live(cache)) <= maxSize

\* a set on a full instance has evicted: three sets, one removal, still full
C1_Witness ==
    /\ maxSize = 2
    /\ Len(cache) = 2
    /\ stats.sets = 3
    /\ stats.deletes = 1
    /\ now = 0

\* C2: LRU eviction. A set of a key that is not present, on an instance full of
\* unexpired entries, removes exactly the entry whose last successful get or
\* set is oldest (the head of recency), and every other entry keeps its value.
C2_EvictsLeastRecentlyUsed ==
    [][\A key \in Keys, value \in Values, customTtl \in TtlArgs :
          (/\ Set(key, value, customTtl)
           /\ ~CacheHas(cache, key)
           /\ Len(cache) = maxSize
           /\ Live(cache) = 1..Len(cache))
          => /\ KeysOf(cache') = (KeysOf(cache) \ {Head(recency)}) \cup {key}
             /\ \A k \in KeysOf(cache) \ {Head(recency)} :
                   CacheGet(cache', k).data = CacheGet(cache, k).data]_vars

\* C3: a set of a key that is present and unexpired moves the key to the
\* most-recently-used position, the last one eviction reaches, and gives it the
\* expiry now + ttl of the call (stated for calls whose ttl is omitted or
\* positive).
C3_OverwriteRefreshes ==
    [][\A key \in Keys, value \in Values, customTtl \in TtlArgs \ {0} :
          (Set(key, value, customTtl) /\ key \in LiveKeys(cache))
          => /\ cache'[Len(cache')].key = key
             /\ CacheGet(cache', key).expiry =
                   now + (IF customTtl = NoTtl THEN ttl ELSE customTtl)]_vars

\* the states reached from S by n sets of distinct keys, each of them new (not
\* stored when it is inserted) and none of them in excl
RECURSIVE Inserted(_, _, _)
Inserted(S, n, excl) ==
    IF n = 0 THEN {S}
    ELSE UNION {UNION {UNION {Inserted(SetOp(S, key, value, customTtl).S,
                                       n - 1, excl \cup {key})
                              : customTtl \in TtlArgs}
                       : value \in Values}
                : key \in Keys \ (excl \cup KeysOf(S.cache))}

\* C4, as stated: a successful get(k) immediately followed by sets inserting
\* maxSize other new distinct keys leaves k present.
C4_SurvivesCapacityInserts ==
    \A k \in LiveKeys(cache) :
       \A S \in Inserted(GetOp(This, k).S, maxSize, {k}) : CacheHas(S.cache, k)

\* C4, amended: a successful get(k) immediately followed by sets inserting
\* maxSize - 1 other new distinct keys leaves k present.
C4_SurvivesFewerInserts ==
    \A k \in LiveKeys(cache) :
       \A S \in Inserted(GetOp(This, k).S, maxSize - 1, {k}) : CacheHas(S.cache, k)

\* set(1), set(2), get(1), set(3) on a capacity of 2: key 2 went, key 1 stayed
C4_Witness ==
    /\ maxSize = 2
    /\ KeySeq(cache) = <<1, 3>>
    /\ stats = [hits |-> 1, misses |-> 0, sets |-> 3, deletes |-> 1]
    /\ now = 0

\* C5: TTL expiry. A set with ttl = t at time s stores the deadline s + t; until
\* the deadline only a set, a delete or clear removes the entry; get returns
\* the value and has reports true before the deadline; after it get returns
\* null, has reports false and the get adds exactly 1 to stats.misses.
C5_TtlExpiry ==
    [][/\ \A key \in Keys, value \in Values, customTtl \in TtlArgs \ {NoTtl} :
             Set(key, value, customTtl)
             => CacheGet(cache', key).expiry = now + customTtl
       /\ \A i \in 1..Len(cache) :
             /\ now < cache[i].expiry
                => /\ GetOp(This, cache[i].key).val = cache[i].data
                   /\ HasOp(This, cache[i].key).val = TRUE
             /\ (now' < cache[i].expiry /\ stats'.sets = stats.sets
                    /\ ~Delete(cache[i].key) /\ ~Clear)
                => \E j \in 1..Len(cache') : cache'[j] = cache[i]
       /\ \A key \in Keys :
             (\A i \in 1..Len(cache) : cache[i].key = key => now > cache[i].expiry)
             => /\ GetOp(This, key).val = Null
                /\ HasOp(This, key).val = FALSE
                /\ GetOp(This, key).S.stats.misses = stats.misses + 1]_vars

\* C6: in every state and for every key k, get(k) records exactly one miss and
\* returns null when k is absent or expired, leaving no entry for k; otherwise
\* it records exactly one hit, moves k to the most-recently-used position and
\* returns the stored value, which is the one the last set of k was given.
C6_GetCounts ==
    /\ \A key \in Keys :
          LET R == GetOp(This, key)
          IN  IF key \notin LiveKeys(cache)
              THEN /\ R.S.stats = [stats EXCEPT !.misses = stats.misses + 1,
                                                !.deletes = R.S.stats.deletes]
                   /\ ~CacheHas(R.S.cache, key)
                   /\ R.val = Null
              ELSE /\ R.S.stats = [stats EXCEPT !.hits = stats.hits + 1,
                                                !.deletes = R.S.stats.deletes]
                   /\ R.S.cache[Len(R.S.cache)] = CacheGet(cache, key)
                   /\ R.val = CacheGet(cache, key).data
    /\ \A key \in Keys, value \in Values :
          CacheGet(SetOp(This, key, value, NoTtl).S.cache, key).data = value

\* a get has missed on an expired key and a get has hit
C6_Witness ==
    /\ stats.hits = 1
    /\ stats.misses = 1
    /\ stats.deletes >= 1
    /\ now = 2
    /\ cache # <<>>

\* C7: in every state, also one that still stores expired entries, get returns
\* null and has returns false for a key that is not stored unexpired, keys()
\* lists exactly the unexpired stored keys, once each, and size() is their
\* number.
C7_ReadsSkipExpired ==
    /\ \A key \in Keys \ LiveKeys(cache) :
          /\ GetOp(This, key).val = Null
          /\ HasOp(This, key).val = FALSE
    /\ \A key \in LiveKeys(cache) : HasOp(This, key).val = TRUE
    /\ {KeysOp(This).val[i] : i \in 1..Len(KeysOp(This).val)} = LiveKeys(cache)
    /\ Len(KeysOp(This).val) = Cardinality(LiveKeys(cache))
    /\ SizeOp(This).val = Len(KeysOp(This).val)

\* an expired entry is still stored, next to an unexpired one, after a read
C7_Witness ==
    /\ Len(cache) = 2
    /\ Cardinality(Live(cache)) = 1
    /\ stats.hits + stats.misses >= 1

\* C8: in every state, delete(k) of an absent key changes neither the entries,
\* nor their order, nor any counter; delete(k) of a stored key, expired or not,
\* removes exactly that entry and adds exactly 1 to stats.deletes; a second
\* delete(k) right after the first changes nothing.
C8_DeleteIdempotent ==
    \A key \in Keys :
       LET S1 == DeleteOp(This, key).S
       IN  /\ IF CacheHas(cache, key)
              THEN /\ S1.cache = SelectSeq(cache, LAMBDA e : e.key # key)
                   /\ S1.stats = [stats EXCEPT !.deletes = stats.deletes + 1]
              ELSE /\ S1.cache = cache
                   /\ S1.stats = stats
           /\ DeleteOp(S1, key).S = S1

\* one set and then the delete of that key, the clock still at 0
C8_Witness ==
    /\ cache = <<>>
    /\ stats = [hits |-> 0, misses |-> 0, sets |-> 1, deletes |-> 1]
    /\ now = 0

\* C9: the result of delete(k) is true when k was stored before the call and
\* false when it was not.
C9_DeleteReportsRemoval ==
    \A key \in Keys : DeleteOp(This, key).val = CacheHas(cache, key)

\* C10: has(k) returns true exactly when k is stored and unexpired, and leaves
\* the order of the entries that stay and the four counters unchanged.
C10_HasIsPure ==
    [][\A key \in Keys :
          Has(key)
          => /\ HasOp(This, key).val = (key \in LiveKeys(cache))
             /\ stats' = stats
             /\ KeySeq(cache') = SelectSeq(KeySeq(cache),
                                           LAMBDA k : k \in LiveKeys(cache))]_vars

\* C11: the time to live set uses. The entry set(k, v, ttl) stores has the
\* expiry now + ttl for every ttl that is given, 0 included, and the expiry
\* now + the default of the instance when no ttl is given.
C11_UsesGivenTtl ==
    [][\A key \in Keys, value \in Values, customTtl \in TtlArgs :
          Set(key, value, customTtl)
          => CacheGet(cache', key).expiry =
                now + (IF customTtl = NoTtl THEN ttl ELSE customTtl)]_vars

\* C16: in every state, clear() leaves the instance as the constructor made it:
\* no entry (size() is 0, keys() is empty, every get misses), the four
\* counters 0, and no timer armed before the call left in the runtime's queue.
C16_ClearResets ==
    LET S1 == ClearOp(This).S
    IN  /\ S1.cache = <<>>
        /\ S1.timers = <<>>
        /\ S1.stats = ZeroStats
        /\ S1.pending = {}
        /\ SizeOp(S1).val = 0
        /\ KeysOp(S1).val = <<>>
        /\ \A key \in Keys : GetOp(S1, key).val = Null

\* an instance with something to clear: two entries with their timers armed,
\* and hits, misses, sets and deletes all counted
C16_Witness ==
    /\ Len(cache) = 2
    /\ Cardinality(pending) = 2
    /\ stats.hits >= 1
    /\ stats.misses >= 1
    /\ stats.deletes >= 1

\* C19: expiry is strict in every interleaving with the timer. While the clock
\* has not passed the expiry of a stored entry (now <= expiry, the instant of
\* expiry included), get returns its value and has reports it, also right after
\* a timer that is due has run.
C19_ValidAtExpiryInstant ==
    \A i \in Live(cache) :
       /\ GetOp(This, cache[i].key).val = cache[i].data
       /\ HasOp(This, cache[i].key).val = TRUE
       /\ \A tm \in pending :
             now >= tm.due
             => /\ GetOp(TimerFireOp(This, tm).S, cache[i].key).val = cache[i].data
                /\ HasOp(TimerFireOp(This, tm).S, cache[i].key).val = TRUE

\* C20: set purges before it tests the capacity. In every state where maxSize
\* entries are stored and at least one of them is expired, set(k, v, ttl) of a
\* key k that is not stored removes no unexpired entry: each of them is stored
\* afterwards, unchanged.
C20_PurgeBeforeCapacity ==
    (Len(cache) = maxSize /\ Live(cache) # 1..Len(cache))
    => \A key \in Keys \ KeysOf(cache), value \in Values, customTtl \in TtlArgs :
          \A i \in Live(cache) :
             \E j \in 1..Len(SetOp(This, key, value, customTtl).S.cache) :
                SetOp(This, key, value, customTtl).S.cache[j] = cache[i]

\* set(1, v, 1) and set(2, v) at time 0, set(3, v) at time 2 on a capacity of 2:
\* the purge removed key 1, key 2 (valid until 2) stayed
C20_Witness ==
    /\ maxSize = 2
    /\ now = 2
    /\ KeySeq(cache) = <<2, 3>>
    /\ cache[1].expiry = 2
    /\ stats.sets = 3
    /\ stats.deletes = 1

\* the reading of a text "d...d.dd%" as a number of hundredths of a percent
IsDigit(ch) == \E d \in 0..9 : Digit(d) = ch

DigitVal(ch) == CHOOSE d \in 0..9 : Digit(d) = ch

RECURSIVE NumberOf(_)
NumberOf(ds) ==
    IF ds = <<>> THEN 0
    ELSE 10 * NumberOf(SubSeq(ds, 1, Len(ds) - 1)) + DigitVal(ds[Len(ds)])

IsPercent2(t) ==
    /\ Len(t) >= 5
    /\ t[Len(t)] = "%"
    /\ t[Len(t) - 3] = "."
    /\ \A i \in 1..(Len(t) - 1) : i # Len(t) - 3 => IsDigit(t[i])
    /\ (Len(t) > 5 => t[1] # "0")

Hundredths(t) ==
    NumberOf(SubSeq(t, 1, Len(t) - 4) \o SubSeq(t, Len(t) - 2, Len(t) - 1))

\* C17: hit-rate arithmetic. After h hits and m misses, the hitRate getStats()
\* returns is the text "0%" when h = m = 0, and otherwise a percentage with
\* exactly two decimals whose value is 100 * h / (h + m) rounded to the nearest
\* hundredth.
C17_HitRateRounded ==
    returned # NoResult
    => LET h == stats.hits
           m == stats.misses
           t == returned.hitRate
       IN  /\ returned.hits = h
           /\ returned.misses = m
           /\ IF h + m = 0
              THEN t = <<"0", "%">>
              ELSE /\ IsPercent2(t)
                   /\ 2 * (Hundredths(t) * (h + m) - 10000 * h) <= h + m
                   /\ 2 * (10000 * h - Hundredths(t) * (h + m)) <= h + m

\* getStats has answered after 2 hits and 1 miss: two thirds, rounded up
C17_Witness ==
    /\ stats.hits = 2
    /\ stats.misses = 1
    /\ returned # NoResult
    /\ returned.hitRate = <<"6", "6", ".", "6", "7", "%">>

\* the arguments of a call with the omitted page and limit filled in
Canonical(c) ==
    IF c.fn \in {"userPosts", "timeline", "trendingPosts"}
    THEN [c EXCEPT !.page = IF c.page = Undefined THEN 1 ELSE c.page,
                   !.limit = IF c.limit = Undefined THEN 10 ELSE c.limit]
    ELSE c

\* C18: the key generators are collision-free. Two calls return the same key
\* exactly when they are calls of the same generator with the same arguments,
\* an omitted page counting as 1 and an omitted limit as 10.
C18_KeysCollisionFree ==
    returned # NoResult
    => ((returned[1] = returned[2]) <=> (Canonical(keyArgs[1]) = Canonical(keyArgs[2])))

\* the keys of userPosts("a:1", 11) and of userPosts("a", 1, 10) were compared:
\* the first starts like the second and is another key
C18_Witness ==
    /\ returned # NoResult
    /\ keyArgs[1] = [fn |-> "userPosts", id |-> <<"a", ":", "1">>, page |-> 11,
                     limit |-> Undefined]
    /\ keyArgs[2] = [fn |-> "userPosts", id |-> <<"a">>, page |-> 1, limit |-> 10]
    /\ returned[1] # returned[2]

\* C12: getOrSet on a key that is stored and unexpired, whatever value is
\* stored under it, does not invoke computeFn and returns the stored value.
C12_NoComputeWhenPresent ==
    \A key \in LiveKeys(cache) :
       /\ ~GetOrSetStartOp(This, key).computes
       /\ GetOrSetStartOp(This, key).val = CacheGet(cache, key).data

\* C13: when getOrSet misses and computeFn raises an error, getOrSet raises
\* that error and writes nothing: the instance is as the miss left it, with
\* no entry for the key and stats.sets unchanged. For a call that is in
\* flight, whatever happened since its miss, the failure changes nothing.
C13_FailureWritesNothing ==
    /\ \A key \in SvcKeys \ LiveKeys(cache), t \in GetOrSetTtls, error \in Errors :
          LET A == GetOrSetStartOp(This, key)
              B == GetOrSetRejectOp(A.S, GetOrSetCall(1, key, t), error)
          IN  /\ A.computes
              /\ B.threw = error
              /\ ~CacheHas(B.S.cache, key)
              /\ B.S.stats.sets = stats.sets
    /\ \A c \in calls, error \in Errors :
          /\ GetOrSetRejectOp(This, c, error).threw = error
          /\ GetOrSetRejectOp(This, c, error).S = This

\* getOrSet(1) missed, its computeFn raised E2, and E2 came out of getOrSet
C13_Witness ==
    /\ returned = [kind |-> "threw", error |-> "E2"]
    /\ calls = {}
    /\ stats = [hits |-> 0, misses |-> 1, sets |-> 0, deletes |-> 0]
    /\ cache = <<>>

\* C14: when getOrSet has missed and computeFn yields r: if r is neither null
\* nor undefined, getOrSet returns r and a get of the key right after returns
\* r; if r is null or undefined, getOrSet returns r and the instance is
\* unchanged.
C14_StoresResult ==
    \A c \in calls, r \in Results :
       LET B == GetOrSetResolveOp(This, c, r)
       IN  /\ B.val = r
           /\ IF r # Null /\ r # Undefined
              THEN /\ GetOp(B.S, c.key).val = r
                   /\ B.S.stats.sets = stats.sets + 1
              ELSE B.S = This

\* getOrSet(1) missed, computeFn yielded 1, which is stored and was returned
C14_Witness ==
    /\ returned = [kind |-> "value", val |-> 1]
    /\ calls = {}
    /\ stats = [hits |-> 0, misses |-> 1, sets |-> 1, deletes |-> 0]
    /\ KeySeq(cache) = <<1>>
    /\ cache[1].data = 1

\* C15: createYeetService leaves the new post out of the post cache. For every
\* call in flight and every post P the database returns to it, when the call
\* has returned get(post:P) misses on the post cache: the entry cached for P
\* was removed by the invalidation, and the tracking of the call has ended.
C15_CreatedPostNotCached ==
    \A c \in calls, postId \in PostIds \ posts, value \in Values :
       LET R == CreateYeetDoneOp(App, c, [id |-> postId, authorId |-> c.authorId,
                                          data |-> value])
           key == KeyIndex(post(postId))
       IN  /\ GetOp(R.A.post, key).val = Null
           /\ ~CacheHas(R.A.post.cache, key)
           /\ R.A.post.stats.sets = stats.sets + 1
           /\ R.A.post.stats.deletes >= stats.deletes + 1

\* createYeetService has created post "a" and returned: one set, one delete,
\* nothing cached, nothing tracked
C15_Witness ==
    /\ returned = [kind |-> "created", id |-> <<"a">>]
    /\ posts = {<<"a">>}
    /\ calls = {}
    /\ queries = {}
    /\ cache = <<>>
    /\ stats = [hits |-> 0, misses |-> 0, sets |-> 1, deletes |-> 1]

\* the timers of the runtime's queue whose delay has elapsed
Due == {tm \in pending : now >= tm.due}

\* C23: no background activity. Outside the calls of its operations nothing
\* changes an instance: a timer of the runtime that runs between two calls
\* leaves the stored entries and stats.deletes as they are.
C23_NoBackgroundActivity ==
    \A tm \in Due :
       /\ TimerFireOp(This, tm).S.cache = cache
       /\ TimerFireOp(This, tm).S.stats.deletes = stats.deletes

\* st is at least s in each of the four counters
CountersAtLeast(st, s) ==
    /\ st.hits >= s.hits
    /\ st.misses >= s.misses
    /\ st.sets >= s.sets
    /\ st.deletes >= s.deletes

\* C24: the counters are monotone. In every state, a get, set, delete, has,
\* keys, size or getStats call and the run of a due timer each leave every
\* counter at least as large as it was, and a set adds exactly 1 to sets.
C24_CountersMonotone ==
    /\ \A key \in Keys :
          /\ CountersAtLeast(GetOp(This, key).S.stats, stats)
          /\ CountersAtLeast(DeleteOp(This, key).S.stats, stats)
          /\ CountersAtLeast(HasOp(This, key).S.stats, stats)
          /\ \A value \in Values, customTtl \in TtlArgs :
                /\ CountersAtLeast(SetOp(This, key, value, customTtl).S.stats, stats)
                /\ SetOp(This, key, value, customTtl).S.stats.sets = stats.sets + 1
    /\ CountersAtLeast(KeysOp(This).S.stats, stats)
    /\ CountersAtLeast(SizeOp(This).S.stats, stats)
    /\ CountersAtLeast(GetStatsOp(This).S.stats, stats)
    /\ \A tm \in Due : CountersAtLeast(TimerFireOp(This, tm).S.stats, stats)

\* every counter has counted, and a timer is due
C24_Witness ==
    /\ stats.hits >= 1
    /\ stats.misses >= 1
    /\ stats.sets >= 2
    /\ stats.deletes >= 1
    /\ Due # {}

\* C25: timers and entries stay in step. In every state the keys with a
\* pending timer are the stored keys, each with one timer, the one its latest
\* set armed (due at the expiry that set stored); so a timer that runs removes
\* an entry only when that entry's own time to live has elapsed.
C25_TimersInStep ==
    /\ DOMAIN timers = KeysOf(cache)
    /\ pending = {timers[k] : k \in DOMAIN timers}
    /\ \A tm \in pending : tm.due = CacheGet(cache, tm.key).expiry
    /\ \A tm \in Due, i \in 1..Len(cache) :
          now < cache[i].expiry
          => \E j \in 1..Len(TimerFireOp(This, tm).S.cache) :
                TimerFireOp(This, tm).S.cache[j] = cache[i]

\* key 1 was set twice, the second time with a later expiry, and the timer of
\* another key is due
C25_Witness ==
    /\ maxSize = 2
    /\ stats.sets = 3
    /\ stats.deletes = 0
    /\ now = 1
    /\ KeySeq(cache) = <<1, 2>>
    /\ cache[1].expiry = 3
    /\ cache[2].expiry = 1
    /\ Cardinality(pending) = 2

\* the entries an operation removed: those stored before, plus the one a set
\* of a new key adds, minus those stored afterwards
Removed(S, added) == Len(cache) + added - Len(S.cache)

\* C26: counter accounting. In every state the stored entries and
\* stats.deletes together are at most stats.sets, and each operation (delete,
\* set with its eviction, the sweep of get, has, keys and size, the run of a
\* timer) adds to stats.deletes exactly the number of entries it removes.
C26_CounterAccounting ==
    /\ Len(cache) + stats.deletes <= stats.sets
    /\ \A key \in Keys :
          /\ GetOp(This, key).S.stats.deletes
                = stats.deletes + Removed(GetOp(This, key).S, 0)
          /\ DeleteOp(This, key).S.stats.deletes
                = stats.deletes + Removed(DeleteOp(This, key).S, 0)
          /\ HasOp(This, key).S.stats.deletes
                = stats.deletes + Removed(HasOp(This, key).S, 0)
          /\ \A value \in Values, customTtl \in TtlArgs :
                LET S1 == SetOp(This, key, value, customTtl).S
                    added == IF CacheHas(EvictExpired(This).cache, key)
                             THEN 0 ELSE 1
                IN  S1.stats.deletes = stats.deletes + Removed(S1, added)
    /\ KeysOp(This).S.stats.deletes = stats.deletes + Removed(KeysOp(This).S, 0)
    /\ SizeOp(This).S.stats.deletes = stats.deletes + Removed(SizeOp(This).S, 0)
    /\ \A tm \in Due :
          TimerFireOp(This, tm).S.stats.deletes
             = stats.deletes + Removed(TimerFireOp(This, tm).S, 0)

\* a delete, an eviction and the run of a timer have each removed an entry
C26_Witness ==
    /\ maxSize = 1
    /\ stats.sets = 4
    /\ stats.deletes = 3
    /\ Len(cache) = 1
    /\ now >= 1

\* C22: getOrSet does not compute at most once per key. While a getOrSet call
\* is suspended in computeFn and its key is still absent, a second getOrSet of
\* that key misses and invokes computeFn too; and of two calls in flight for
\* the same key, whose computeFn yield r1 and then r2, the value stored in the
\* end is r2, the one of the call that finished last.
C22_NoDeduplication ==
    /\ \A c \in calls :
          c.key \notin LiveKeys(cache) =>
             /\ GetOrSetStartOp(This, c.key).computes
             /\ GetOrSetStartOp(This, c.key).S.stats.misses = stats.misses + 1
    /\ \A c1 \in calls, c2 \in calls, r1 \in Values, r2 \in Values :
          (c1 # c2 /\ c1.key = c2.key) =>
             LET B1 == GetOrSetResolveOp(This, c1, r1)
                 B2 == GetOrSetResolveOp(B1.S, c2, r2)
             IN  /\ B1.val = r1
                 /\ B2.val = r2
                 /\ CacheGet(B2.S.cache, c2.key).data = r2
                 /\ GetOp(B2.S, c2.key).val = r2
                 /\ B2.S.stats.sets = stats.sets + 2

\* two getOrSet(1) calls are suspended in computeFn at once: both missed
C22_Witness ==
    /\ Cardinality(calls) = 2
    /\ \A c \in calls : c.op = "getOrSet" /\ c.key = 1
    /\ stats = [hits |-> 0, misses |-> 2, sets |-> 0, deletes |-> 0]
    /\ cache = <<>>

\* the page sizes of the sweep
SweepLimitSet == {SweepLimits[i] : i \in DOMAIN SweepLimits}

\* C21: after invalidatePostCaches(P, U) these keys are all absent from their
\* instances: post:P, post_stats:P, user_posts:U:page:limit for the pages
\* 1..10 and timeline:U:page:limit for the pages 1..5, for each of the page
\* sizes 10, 20 and 50.
C21_SweepRemovesAll ==
    \A postId \in PostIds, userId \in AuthorIds :
       LET A == InvalidatePostCaches(App, postId, userId)
       IN  /\ ~CacheHas(A.post.cache, KeyIndex(post(postId)))
           /\ ~CacheHas(A.others.query.cache, postStats(postId))
           /\ \A page \in 1..UserPostsPages, limit \in SweepLimitSet :
                 ~CacheHas(A.others.user.cache, userPosts(userId, page, limit))
           /\ \A page \in 1..TimelinePages, limit \in SweepLimitSet :
                 ~CacheHas(A.others.timeline.cache, timeline(userId, page, limit))

\* the posts whose deleteYeetService call has returned the deleted post
Deleted ==
    {id \in PostIds \ posts :
        ~\E c \in calls : c.op = "deleteYeet" /\ c.postId = id /\ c.pc = "delete"
                            /\ c.res.state = "row"}

\* C27: once deleteYeetService(id) has returned, a getYeetByIdService(id) does
\* not return the deleted post from the post cache, whatever calls were in
\* flight when the delete ran.
C27_NoStaleRead ==
    \A id \in Deleted :
       GetYeetByIdStartOp(App, id).out.kind # "value"

\* C30: whenever no service call is in progress, the performance tracker holds
\* no entry.
C30_NoTrackingLeak == (calls = {}) => (queries = {})

\* what the create of the interaction record came to, for a call that is past it
Made(c) == IF c.pc = "create" THEN c.res ELSE c.result

\* C28: likeYeetService and retweetYeetService report success only when the
\* interaction record exists. When the create failed with an error other
\* than P2002 the call does not come to { success: true, ... }; when it failed
\* with P2002, the result carries 'Already liked' / 'Already retweeted'.
C28_SuccessOnlyWhenRecorded ==
    \A c \in calls :
       (c.op \in InteractionTypes /\ c.res # Waiting /\ Made(c).state = "error") =>
          LET R == InteractionResumeOp(App, c)
          IN  R.out.kind = "success" =>
                 /\ Made(c).error = "P2002"
                 /\ R.out.message = AlreadyMessage(c.op)

\* C29: executeParallel(tasks, c) never rejects and returns one result per
\* task, in task order with results[i].index = i, marked success with the
\* task's value or failure with its error; never more than c function-tasks
\* are running; and when it has returned stats.totalProcessed equals
\* stats.successful + stats.failed and has grown by the number of tasks.
C29_ExecuteParallel ==
    /\ processor.pc = "batch" =>
          /\ Cardinality(RunningFunctions(processor)) <= processor.actualConcurrency
          /\ Len(processor.batch) <= processor.actualConcurrency
    /\ processor.pc = "done" =>
          /\ returned.results = processor.results
          /\ Len(returned.results) = Len(processor.tasks)
          /\ \A k \in DOMAIN returned.results :
                /\ returned.results[k].index = k - 1
                /\ returned.results[k] = processor.outcomes[k]
                /\ returned.results[k].settled
          /\ returned.stats.totalProcessed =
                returned.stats.successful + returned.stats.failed
          /\ returned.stats.totalProcessed =
                processor.before + Len(processor.tasks)
          /\ processor.stats.totalProcessed = returned.stats.totalProcessed

\* executeParallel([function, function, function], 2) has returned: two
\* batches, two tasks resolved and the last one rejected
C29_Witness ==
    /\ processor.pc = "done"
    /\ processor.tasks = <<"function", "function", "function">>
    /\ processor.actualConcurrency = 2
    /\ processor.before = 0
    /\ Len(returned.results) = 3
    /\ returned.results[1].success
    /\ returned.results[2].success
    /\ ~returned.results[3].success
    /\ returned.results[3].error = "E1"
    /\ returned.stats.successful = 2
    /\ returned.stats.failed = 1

====
